---- MODULE Spec2Model ----
(***************************************************************************)
(* File server and client (socketserver_server-0.3.py and                  *)
(* client-folder/socketserver_client-0.3.py).                              *)
(*                                                                         *)
(* One client invocation talks to one server handler thread over one TCP   *)
(* connection.  The connection is two byte streams; a stream is a sequence *)
(* of items, an item being one file byte or one whole protocol message     *)
(* (its fields, as str.split(SEP) yields them).  A recv(n) on a stream     *)
(* returns between 1 and n of the items that have arrived, blocks when     *)
(* none has and the peer has not closed, and returns nothing after the     *)
(* peer's close.  Sizes are scaled: BUFFER_SIZE and FIRST_RECV stand for   *)
(* the 4096 and 1024 of the source, a message counts as one item.  The     *)
(* transport loses nothing and a send never fails.                         *)
(***************************************************************************)
EXTENDS Integers, Sequences, FiniteSets, TLC

\* ---------------------------------------------------------------- bounds
\* Scaled chunk size (BUFFER_SIZE = 4096 in both programs).
BUFFER_SIZE == 2
\* Scaled size of the client's first read (sock.recv(1024)).
FIRST_RECV == 3
\* Longest file, in bytes, that Init puts on either side.
MaxFileLen == 5
\* Client invocations in one behaviour.
MaxSessions == 2
\* The longest file either client of the two-connection runs uploads.
MaxRaceLen == 3

\* ------------------------------------------------------------ vocabulary
FN_A == "a"
\* FN_LIMIT of the client (line 20).
FN_LIMIT == 255
Names == {FN_A}

\* Optional CLI integer: <<>> is Python's None, <<n>> is n.
None == <<>>
Some(n) == <<n>>

Byte(v) == [k |-> "b", v |-> v, f |-> <<>>]
Msg(fields) == [k |-> "m", v |-> 0, f |-> fields]
IsByte(it) == it.k = "b"
IsMsg(it) == it.k = "m"

\* A file of the filesystem: absent, or the sequence of items it holds.
NoFile == [exists |-> FALSE, data |-> <<>>]
File(d) == [exists |-> TRUE, data |-> d]

\* Contents Init chooses from: n bytes base+1 .. base+n, all distinct, so
\* that a lost, duplicated or reordered byte shows.  Bases below 128 are
\* ASCII text, the base above is binary data.
RECURSIVE Content(_, _)
Content(base, n) ==
    IF n = 0 THEN <<>> ELSE Append(Content(base, n - 1), Byte(base + n))
HostedBases == {64, 192}
LocalBases == {96, 224}

IsAscii(it) == IsMsg(it) \/ it.v < 128

RECURSIVE Take(_, _)
Take(s, n) == IF n <= 0 \/ s = <<>> THEN <<>> ELSE <<Head(s)>> \o Take(Tail(s), n - 1)
RECURSIVE Drop(_, _)
Drop(s, n) == IF n <= 0 \/ s = <<>> THEN s ELSE Drop(Tail(s), n - 1)
Min(a, b) == IF a < b THEN a ELSE b

\* ------------------------------------------------------- text <-> number
Digits == <<"0", "1", "2", "3", "4", "5", "6", "7", "8", "9">>

\* Python's str(n) / f'{n}' of an int.
RECURSIVE IntToStr(_)
IntToStr(n) ==
    IF n < 0 THEN "-" \o IntToStr(-n)
    ELSE IF n < 10 THEN Digits[n + 1]
    ELSE IntToStr(n \div 10) \o Digits[(n % 10) + 1]

\* '{}'.format(x) of an optional CLI integer: None prints as "None".
OptToStr(o) == IF o = None THEN "None" ELSE IntToStr(o[1])

IsDigit(c) == \E i \in 1..10 : Digits[i] = c
DigitVal(c) == (CHOOSE i \in 1..10 : Digits[i] = c) - 1

\* int() strips surrounding whitespace; the only whitespace on the wire is
\* the "\n" the client appends to its request.
Strip(s) ==
    IF Len(s) > 0 /\ SubSeq(s, Len(s), Len(s)) = "\n"
    THEN SubSeq(s, 1, Len(s) - 1) ELSE s

RECURSIVE AllDigits(_)
AllDigits(s) ==
    IF Len(s) = 0 THEN TRUE
    ELSE IsDigit(SubSeq(s, 1, 1)) /\ AllDigits(SubSeq(s, 2, Len(s)))

RECURSIVE DigitsVal(_, _)
DigitsVal(s, acc) ==
    IF Len(s) = 0 THEN acc
    ELSE DigitsVal(SubSeq(s, 2, Len(s)), 10 * acc + DigitVal(SubSeq(s, 1, 1)))

\* Python's int(s): [ok |-> FALSE] is ValueError.
ParseInt(s) ==
    LET t == Strip(s)
        neg == Len(t) > 0 /\ SubSeq(t, 1, 1) = "-"
        d == IF neg THEN SubSeq(t, 2, Len(t)) ELSE t
    IN  IF Len(d) > 0 /\ AllDigits(d)
        THEN [ok |-> TRUE, val |-> IF neg THEN -DigitsVal(d, 0) ELSE DigitsVal(d, 0)]
        ELSE [ok |-> FALSE, val |-> 0]

\* ------------------------------------------------------------------ state
VARIABLES
    hosted,     \* server: ./hosted-files/<name> -> file
    local,      \* client: ./<name> -> file
    c2s,        \* items sent by the client, not yet read by the server
    s2c,        \* items sent by the server, not yet read by the client
    c2sEof,     \* the client has closed its end
    s2cEof,     \* the server has closed its end
    cli,        \* the client process: position, arguments, locals
    srv,        \* the handler thread: position, attributes of self, locals
    sent,       \* history: every item the handler sent on this connection
    printed,    \* history: the N of every 'Sent N% of <file>' line
    visited,    \* history: the handler states entered, in order
    fsops,      \* history: the filesystem calls of the handler
    snap,       \* history: both filesystems when the client was invoked
    prev,       \* history: what the previous invocation was
    session,    \* number of the current client invocation
    race        \* a second connection, served by a second handler thread

vars == <<hosted, local, c2s, s2c, c2sEof, s2cEof, cli, srv, sent, printed,
          visited, fsops, snap, prev, session, race>>

CliInit ==
    [pc |-> "idle", write |-> FALSE, fn |-> FN_A, s |-> None, e |-> None,
     raw |-> FALSE, connected |-> FALSE, request |-> <<>>, received |-> <<>>,
     file_size |-> 0, bytes_left |-> 0, bytes_read |-> <<>>, asked |-> 0,
     fpos |-> 0, fh |-> "none", err |-> "none"]

SrvInit ==
    [pc |-> "Listening", init_cmd |-> <<>>, fn |-> "", file_size |-> 0,
     start_byte |-> 0, end_byte |-> 0, bytes_left |-> 0, tot_bytes_sent |-> 0,
     percent_printed |-> 0, bytes_read |-> <<>>, fpos |-> 0, fh |-> "none",
     process_status |-> "unbound", final_resp |-> <<>>, zdiv |-> 0,
     chunks |-> <<>>, err |-> "none"]

\* No second connection.
RaceInit ==
    [on |-> FALSE, h |-> SrvInit, in |-> <<>>, inEof |-> FALSE, out |-> <<>>,
     data |-> <<>>, ppc |-> "idle"]

PrevInit == [kind |-> "none", fn |-> "", data |-> <<>>, absent |-> FALSE]

HostedChoices ==
    {NoFile} \cup {File(Content(b, n)) : b \in HostedBases, n \in 0..MaxFileLen}
LocalChoices ==
    {NoFile} \cup {File(Content(b, n)) : b \in LocalBases, n \in 0..MaxFileLen}

Init ==
    /\ hosted \in [Names -> HostedChoices]
    /\ local \in [Names -> LocalChoices]
    /\ c2s = <<>> /\ s2c = <<>>
    /\ c2sEof = FALSE /\ s2cEof = FALSE
    /\ cli = CliInit
    /\ srv = SrvInit
    /\ sent = <<>> /\ printed = <<>> /\ visited = <<>> /\ fsops = <<>>
    /\ snap = [hosted |-> hosted, local |-> local]
    /\ prev = PrevInit
    /\ session = 1
    /\ race = RaceInit

\* -------------------------------------------------------------- transport
\* The numbers of items a recv(n) may return: nothing for n = 0, some of
\* what has arrived, nothing once the peer has closed; no choice: it blocks.
RecvChoices(stream, eof, n) ==
    IF n <= 0 THEN {0}
    ELSE IF Len(stream) > 0 THEN 1..Min(n, Len(stream))
    ELSE IF eof THEN {0}
    ELSE {}

\* str(data, 'ascii').split(SEP): the fields of the leading message; an
\* empty read decodes to one empty field.
Decode(data) ==
    IF data = <<>> THEN <<"">>
    ELSE IF IsMsg(Head(data)) THEN Head(data).f
    ELSE <<"bytes">>

Decodable(data) == \A i \in 1..Len(data) : IsAscii(data[i])

\* f.write(chunk) at offset pos of a file holding d, through to the file; a
\* write beyond the end leaves a hole of zero bytes.
RECURSIVE Zeros(_)
Zeros(n) == IF n <= 0 THEN <<>> ELSE Append(Zeros(n - 1), Byte(0))
WriteAt(d, pos, chunk) ==
    Take(d, pos) \o Zeros(pos - Len(d)) \o chunk \o Drop(d, pos + Len(chunk))

\* f.read(n) at offset pos of a file holding d.
FileRead(d, pos, n) == Take(Drop(d, pos), n)

\* ----------------------------------------------------------------- client
\* The values the -s and -e flags take in the model.
OptInts == {None} \cup {Some(n) : n \in (-2)..(MaxFileLen + 1)}

\* construct_client_request without the is_file() test of the upload source.
construct_client_request_no_check(start_b, end_b, write, fn, files) ==
    IF write
    THEN <<"w", fn, IntToStr(Len(files[fn].data)) \o "\n">>
    ELSE <<"g", fn, OptToStr(start_b), OptToStr(end_b) \o "\n">>

\* construct_client_request: the fields of the request line, "\n" appended
\* by the caller; <<>> is the False returned when the upload source is
\* missing.
construct_client_request(start_b, end_b, write, fn, files) ==
    IF write
    THEN IF files[fn].exists
         THEN <<"w", fn, IntToStr(Len(files[fn].data)) \o "\n">>
         ELSE <<>>
    ELSE <<"g", fn, OptToStr(start_b), OptToStr(end_b) \o "\n">>

\* First messages of a peer that is not this client.
RawMessages ==
    { <<"x", FN_A>>, <<"write", FN_A, "3">>, <<"get", FN_A, "0", "3">>,
      <<"w", FN_A>>, <<"w", FN_A, "abc">>, <<"w">>,
      <<"g">>, <<"g", FN_A>>, <<"g", FN_A, "1">>, <<"g", FN_A, "", "">>,
      <<"g", FN_A, "0", "-1">> }

\* __main__ lines 105-139: build the request; quit when there is none,
\* else connect and send it.
ClientRequest(start_b, end_b, write, fn) ==
    /\ cli.pc = "idle"
    /\ LET request == construct_client_request(start_b, end_b, write, fn, local)
       IN  IF request = <<>>
           THEN /\ cli' = [cli EXCEPT !.pc = "exited", !.write = write, !.fn = fn,
                                      !.s = start_b, !.e = end_b]
                /\ c2s' = c2s
           ELSE /\ cli' = [cli EXCEPT !.pc = "recvFirst", !.write = write, !.fn = fn,
                                      !.s = start_b, !.e = end_b,
                                      !.connected = TRUE, !.request = request]
                /\ c2s' = Append(c2s, Msg(request))
    /\ UNCHANGED <<hosted, local, s2c, c2sEof, s2cEof, srv, sent, printed,
                   visited, fsops, snap, prev, session, race>>

\* A peer that sends something else as its first message, and then goes on
\* as the client does.
RawPeerRequest(m) ==
    /\ cli.pc = "idle"
    /\ cli' = [cli EXCEPT !.pc = "recvFirst", !.raw = TRUE, !.connected = TRUE,
                          !.request = m]
    /\ c2s' = Append(c2s, Msg(m))
    /\ UNCHANGED <<hosted, local, s2c, c2sEof, s2cEof, srv, sent, printed,
                   visited, fsops, snap, prev, session, race>>

\* A peer whose first message is not ASCII text.
RawPeerGarbage ==
    /\ cli.pc = "idle"
    /\ cli' = [cli EXCEPT !.pc = "recvFirst", !.raw = TRUE, !.connected = TRUE,
                          !.request = <<"garbage">>]
    /\ c2s' = Append(c2s, Byte(255))
    /\ UNCHANGED <<hosted, local, s2c, c2sEof, s2cEof, srv, sent, printed,
                   visited, fsops, snap, prev, session, race>>

\* A peer that connects and shuts its sending side down without a message.
RawPeerSilent ==
    /\ cli.pc = "idle"
    /\ cli' = [cli EXCEPT !.pc = "recvFirst", !.raw = TRUE, !.connected = TRUE,
                          !.request = <<"">>]
    /\ c2sEof' = TRUE
    /\ UNCHANGED <<hosted, local, c2s, s2c, s2cEof, srv, sent, printed,
                   visited, fsops, snap, prev, session, race>>

\* The dispatch with the download branch taken for every tag but s.
ClientDispatchOpens(data) ==
    LET received == Decode(data) IN
    IF ~Decodable(data)
    THEN [cli EXCEPT !.pc = "exited", !.err = "UnicodeDecodeError"]
    ELSE IF received[1] = "s"
    THEN [cli EXCEPT !.pc = "sendOpen", !.received = received]
    ELSE [cli EXCEPT !.pc = "recvOpen", !.received = received, !.file_size = 0]

\* __main__ lines 143-191 after the first read returned data: where the
\* client goes on the tag of the reply.
ClientDispatch(data) ==
    LET received == Decode(data) IN
    IF ~Decodable(data)
    THEN [cli EXCEPT !.pc = "exited", !.err = "UnicodeDecodeError"]
    ELSE IF received[1] = "s"
    THEN [cli EXCEPT !.pc = "sendOpen", !.received = received]
    ELSE IF received[1] = "g"
    THEN IF Len(received) >= 2 /\ ParseInt(received[2]).ok
         THEN [cli EXCEPT !.pc = "recvOpen", !.received = received,
                          !.file_size = ParseInt(received[2]).val]
         ELSE [cli EXCEPT !.pc = "exited", !.received = received,
                          !.err = "ValueError"]
    ELSE [cli EXCEPT !.pc = "exited", !.received = received]

\* __main__ line 143: received = str(sock.recv(1024), "ascii").split(SEP),
\* and the dispatch on received[0]; the e, d and unknown branches close.
ClientRecvFirst(k) ==
    /\ cli.pc = "recvFirst"
    /\ k \in RecvChoices(s2c, s2cEof, FIRST_RECV)
    /\ cli' = ClientDispatch(Take(s2c, k))
    /\ s2c' = Drop(s2c, k)
    /\ c2sEof' = (c2sEof \/ cli'.pc = "exited")
    /\ UNCHANGED <<hosted, local, c2s, s2cEof, srv, sent, printed, visited,
                   fsops, snap, prev, session, race>>

\* __main__ lines 148-149: open the local file and read the first chunk.
ClientSendOpen ==
    /\ cli.pc = "sendOpen"
    /\ IF local[cli.fn].exists
       THEN cli' = [cli EXCEPT !.pc = "sendLoop", !.fh = "rb",
                        !.bytes_read = FileRead(local[cli.fn].data, 0, BUFFER_SIZE),
                        !.fpos = Min(BUFFER_SIZE, Len(local[cli.fn].data))]
       ELSE cli' = [cli EXCEPT !.pc = "exited", !.err = "FileNotFoundError"]
    /\ c2sEof' = (cli'.pc = "exited")
    /\ UNCHANGED <<hosted, local, c2s, s2c, s2cEof, srv, sent, printed,
                   visited, fsops, snap, prev, session, race>>

\* __main__ lines 150-152: one turn of the upload loop.
ClientSendChunk ==
    /\ cli.pc = "sendLoop"
    /\ cli.bytes_read # <<>>
    /\ c2s' = c2s \o cli.bytes_read
    /\ LET next == FileRead(local[cli.fn].data, cli.fpos, BUFFER_SIZE)
       IN  cli' = [cli EXCEPT !.bytes_read = next, !.fpos = cli.fpos + Len(next)]
    /\ UNCHANGED <<hosted, local, s2c, c2sEof, s2cEof, srv, sent, printed,
                   visited, fsops, snap, prev, session, race>>

\* The end of the upload loop with the socket left open.
ClientSendDoneNoClose ==
    /\ cli.pc = "sendLoop"
    /\ cli.bytes_read = <<>>
    /\ cli' = [cli EXCEPT !.pc = "exited", !.fh = "none"]
    /\ UNCHANGED <<hosted, local, c2s, s2c, c2sEof, s2cEof, srv, sent, printed,
                   visited, fsops, snap, prev, session, race>>

\* __main__ lines 153-155: the loop is over; the file and the socket close.
ClientSendDone ==
    /\ cli.pc = "sendLoop"
    /\ cli.bytes_read = <<>>
    /\ cli' = [cli EXCEPT !.pc = "exited", !.fh = "none"]
    /\ c2sEof' = TRUE
    /\ UNCHANGED <<hosted, local, c2s, s2c, s2cEof, srv, sent, printed,
                   visited, fsops, snap, prev, session, race>>

\* __main__ line 160: open the local target for writing, which creates or
\* truncates it.
ClientRecvOpen ==
    /\ cli.pc = "recvOpen"
    /\ local' = [local EXCEPT ![cli.fn] = File(<<>>)]
    /\ cli' = [cli EXCEPT !.pc = "recvFirstChunk", !.fh = "wb"]
    /\ UNCHANGED <<hosted, c2s, s2c, c2sEof, s2cEof, srv, sent, printed,
                   visited, fsops, snap, prev, session, race>>

\* __main__ lines 161-167: the first read of the payload.
ClientRecvFirstChunk(k) ==
    /\ cli.pc = "recvFirstChunk"
    /\ LET n == IF BUFFER_SIZE >= cli.file_size THEN cli.file_size ELSE BUFFER_SIZE
           left == IF BUFFER_SIZE >= cli.file_size THEN 0
                   ELSE cli.file_size - BUFFER_SIZE
       IN  /\ k \in RecvChoices(s2c, s2cEof, n)
           /\ cli' = [cli EXCEPT !.pc = "recvLoop", !.bytes_read = Take(s2c, k),
                                 !.bytes_left = left, !.asked = n]
    /\ s2c' = Drop(s2c, k)
    /\ UNCHANGED <<hosted, local, c2s, c2sEof, s2cEof, srv, sent, printed,
                   visited, fsops, snap, prev, session, race>>

\* The download loop asking for BUFFER_SIZE bytes at every turn.
ClientRecvChunkFull(k) ==
    /\ cli.pc = "recvLoop"
    /\ cli.bytes_read # <<>>
    /\ local' = [local EXCEPT ![cli.fn] = File(local[cli.fn].data \o cli.bytes_read)]
    /\ k \in RecvChoices(s2c, s2cEof, BUFFER_SIZE)
    /\ cli' = [cli EXCEPT !.bytes_read = Take(s2c, k),
                          !.asked = cli.asked + BUFFER_SIZE]
    /\ s2c' = Drop(s2c, k)
    /\ UNCHANGED <<hosted, c2s, c2sEof, s2cEof, srv, sent, printed, visited,
                   fsops, snap, prev, session, race>>

\* __main__ lines 168-175: one turn of the download loop: write what was
\* read, read again.
ClientRecvChunk(k) ==
    /\ cli.pc = "recvLoop"
    /\ cli.bytes_read # <<>>
    /\ local' = [local EXCEPT ![cli.fn] = File(local[cli.fn].data \o cli.bytes_read)]
    /\ LET n == IF cli.bytes_left < BUFFER_SIZE THEN cli.bytes_left ELSE BUFFER_SIZE
           left == IF cli.bytes_left < BUFFER_SIZE THEN 0
                   ELSE cli.bytes_left - BUFFER_SIZE
       IN  /\ k \in RecvChoices(s2c, s2cEof, n)
           /\ cli' = [cli EXCEPT !.bytes_read = Take(s2c, k), !.bytes_left = left,
                                 !.asked = cli.asked + n]
    /\ s2c' = Drop(s2c, k)
    /\ UNCHANGED <<hosted, c2s, c2sEof, s2cEof, srv, sent, printed, visited,
                   fsops, snap, prev, session, race>>

\* __main__ lines 176-178: the loop is over; the file and the socket close.
ClientRecvDone ==
    /\ cli.pc = "recvLoop"
    /\ cli.bytes_read = <<>>
    /\ cli' = [cli EXCEPT !.pc = "exited", !.fh = "none"]
    /\ c2sEof' = TRUE
    /\ UNCHANGED <<hosted, local, c2s, s2c, s2cEof, srv, sent, printed,
                   visited, fsops, snap, prev, session, race>>

\* ----------------------------------------------------------------- server
\* byte_bound_check without the exemption of the -1 sentinel.
byte_bound_check_no_sentinel(start_byte, end_byte, file_size) ==
    IF start_byte > file_size THEN FALSE
    ELSE IF end_byte > file_size THEN FALSE
    ELSE IF start_byte < 0 THEN FALSE
    ELSE IF end_byte < start_byte THEN FALSE
    ELSE TRUE

\* byte_bound_check without its first test, start_byte > file_size.
byte_bound_check_no_start(start_byte, end_byte, file_size) ==
    IF end_byte > file_size THEN FALSE
    ELSE IF start_byte < 0 THEN FALSE
    ELSE IF (end_byte < start_byte) /\ (end_byte # -1) THEN FALSE
    ELSE TRUE

\* byte_bound_check.
byte_bound_check(start_byte, end_byte, file_size) ==
    IF start_byte > file_size THEN FALSE
    ELSE IF end_byte > file_size THEN FALSE
    ELSE IF start_byte < 0 THEN FALSE
    ELSE IF (end_byte < start_byte) /\ (end_byte # -1) THEN FALSE
    ELSE TRUE

\* calc_send_filesize: the new self.file_size.
calc_send_filesize(start_byte, end_byte, file_size) ==
    LET to_subtract == start_byte
                       + (IF end_byte > start_byte THEN file_size - end_byte ELSE 0)
    IN  file_size - to_subtract

\* file_exists with the test inverted.
file_exists_inverted(fn, files) == fn \in DOMAIN files /\ ~files[fn].exists

\* file_exists answering True for every name.
file_exists_always(fn, files) == TRUE

\* file_exists: Path.is_file().
file_exists(fn, files) == fn \in DOMAIN files /\ files[fn].exists

\* The wire messages of the server.
RespReadyToReceive(fn, file_size) == <<"s", fn, IntToStr(file_size)>>
RespReadyToSend(file_size) == <<"g", IntToStr(file_size), "">>
RespFileExists == <<"e", "FILE EXISTS ON SERVER. RENAME FILE.">>
RespBounds == <<"e", "Provided byte bounds are illogical">>
RespNotFound(fn) == <<"e", fn \o " Does not exist on server.">>
FinalDone == <<"d", "PROCESS COMPLETE">>
FinalWrong == <<"e", "Something went wrong.">>
FinalUnknown == <<"e", "Unknown Initial Command">>

\* An exception that leaves the handler with its file still open.
RaiseLeak(h, exc) == [h EXCEPT !.pc = "Closed", !.err = exc]

\* An exception leaves handle(): socketserver reports it and shuts the
\* request down; nothing more is sent.
Raise(h, exc) == [h EXCEPT !.pc = "Closed", !.err = exc, !.fh = "none"]

\* The threading server accepts the connection and starts handle()
\* (lines 57-60).
SrvAccept ==
    /\ srv.pc = "Listening"
    /\ cli.connected
    /\ srv' = [srv EXCEPT !.pc = "AwaitingInitCommand"]
    /\ visited' = Append(visited, "AwaitingInitCommand")
    /\ UNCHANGED <<hosted, local, c2s, s2c, c2sEof, s2cEof, cli, sent, printed,
                   fsops, snap, prev, session, race>>

\* get_init_cmd on the data of the first read, and lines 62-73 of handle.
GetInitCmd(h, data) ==
    LET init_receive == Decode(data)
        init_cmd == init_receive[1]
    IN  IF ~Decodable(data) THEN Raise(h, "UnicodeDecodeError")
        ELSE IF Len(init_cmd) = 0 THEN Raise(h, "IndexError")
        ELSE IF SubSeq(init_cmd, 1, 1) = "w" \/ SubSeq(init_cmd, 1, 1) = "g"
        THEN [h EXCEPT !.pc = "ValidatingCommand", !.init_cmd = init_receive]
        ELSE [h EXCEPT !.pc = "SendingFinalResponse", !.final_resp = FinalUnknown]

SrvGetInitCmd(k) ==
    /\ srv.pc = "AwaitingInitCommand"
    /\ k \in RecvChoices(c2s, c2sEof, BUFFER_SIZE)
    /\ srv' = GetInitCmd(srv, Take(c2s, k))
    /\ c2s' = Drop(c2s, k)
    /\ visited' = Append(visited, srv'.pc)
    /\ s2cEof' = (srv'.pc = "Closed")
    /\ UNCHANGED <<hosted, local, s2c, c2sEof, cli, sent, printed, fsops,
                   snap, prev, session, race>>

\* The upload branch without the file_exists test: it always accepts.
ProcessWriteNoCheck(h, files) ==
    LET cmd == h.init_cmd IN
    IF Len(cmd) < 3 THEN [h |-> Raise(h, "IndexError"), out |-> <<>>, ops |-> <<>>]
    ELSE IF ~ParseInt(cmd[3]).ok
    THEN [h |-> Raise(h, "ValueError"), out |-> <<>>, ops |-> <<>>]
    ELSE [h |-> [h EXCEPT !.pc = "UploadOpen", !.fn = cmd[2],
                          !.file_size = ParseInt(cmd[3]).val],
          out |-> <<Msg(RespReadyToReceive(cmd[2], ParseInt(cmd[3]).val))>>,
          ops |-> <<>>]

\* process_init_cmd lines 91-111, the upload branch up to the reply:
\* [h, out, ops] are the handler, the message sent and the filesystem calls.
ProcessWrite(h, files) ==
    LET cmd == h.init_cmd IN
    IF Len(cmd) < 3 THEN [h |-> Raise(h, "IndexError"), out |-> <<>>, ops |-> <<>>]
    ELSE IF ~ParseInt(cmd[3]).ok
    THEN [h |-> Raise(h, "ValueError"), out |-> <<>>, ops |-> <<>>]
    ELSE LET fn == cmd[2]
             file_size == ParseInt(cmd[3]).val
         IN  IF ~file_exists(fn, files)
             THEN [h |-> [h EXCEPT !.pc = "UploadOpen", !.fn = fn,
                                   !.file_size = file_size],
                   out |-> <<Msg(RespReadyToReceive(fn, file_size))>>,
                   ops |-> <<"is_file">>]
             ELSE [h |-> [h EXCEPT !.pc = "SendingFinalResponse", !.fn = fn,
                                   !.file_size = file_size,
                                   !.process_status = "False",
                                   !.final_resp = FinalWrong],
                   out |-> <<Msg(RespFileExists)>>,
                   ops |-> <<"is_file">>]

\* process_init_cmd lines 112-138 with send_ready_check, the download
\* branch up to the reply.
ProcessGet(h, files) ==
    LET cmd == h.init_cmd IN
    IF Len(cmd) < 4 THEN [h |-> Raise(h, "IndexError"), out |-> <<>>, ops |-> <<>>]
    ELSE LET fn == cmd[2]
             start_byte == IF ParseInt(cmd[3]).ok THEN ParseInt(cmd[3]).val ELSE 0
             end_byte == IF ParseInt(cmd[4]).ok THEN ParseInt(cmd[4]).val ELSE -1
             failed(resp, ops) ==
                 [h |-> [h EXCEPT !.pc = "SendingFinalResponse", !.fn = fn,
                                  !.start_byte = start_byte, !.end_byte = end_byte,
                                  !.process_status = "False",
                                  !.final_resp = FinalWrong],
                  out |-> <<Msg(resp)>>, ops |-> ops]
         IN  IF ~file_exists(fn, files)
             THEN failed(RespNotFound(fn), <<"is_file">>)
             ELSE LET st_size == Len(files[fn].data) IN
                  IF ~byte_bound_check(start_byte, end_byte, st_size)
                  THEN [failed(RespBounds, <<"is_file", "stat">>)
                            EXCEPT !.h.file_size = st_size]
                  ELSE LET file_size == calc_send_filesize(start_byte, end_byte, st_size)
                       IN  [h |-> [h EXCEPT !.pc = "DownloadOpen", !.fn = fn,
                                            !.start_byte = start_byte,
                                            !.end_byte = end_byte,
                                            !.file_size = file_size],
                            out |-> <<Msg(RespReadyToSend(file_size))>>,
                            ops |-> <<"is_file", "stat">>]

\* process_init_cmd: the dispatch on init_cmd[0]; a first field that is
\* neither 'w' nor 'g' reaches the return with process_status unbound.
ProcessInitCmd(h, files) ==
    IF h.init_cmd[1] = "w" THEN ProcessWrite(h, files)
    ELSE IF h.init_cmd[1] = "g" THEN ProcessGet(h, files)
    ELSE [h |-> Raise(h, "UnboundLocalError"), out |-> <<>>, ops |-> <<>>]

SrvProcessInitCmd ==
    /\ srv.pc = "ValidatingCommand"
    /\ LET r == ProcessInitCmd(srv, hosted)
       IN  /\ srv' = r.h
           /\ s2c' = s2c \o r.out
           /\ sent' = sent \o r.out
           /\ fsops' = fsops \o r.ops
    /\ visited' = Append(visited, srv'.pc)
    /\ s2cEof' = (srv'.pc = "Closed")
    /\ UNCHANGED <<hosted, local, c2s, c2sEof, cli, printed, snap, prev, session, race>>

\* receive_file line 268: open the hosted file for writing, which creates
\* or truncates it.
SrvReceiveOpen ==
    /\ srv.pc = "UploadOpen"
    /\ hosted' = [hosted EXCEPT ![srv.fn] = File(<<>>)]
    /\ srv' = [srv EXCEPT !.pc = "UploadRecv", !.fh = "wb", !.fpos = 0]
    /\ fsops' = Append(fsops, "open_wb")
    /\ UNCHANGED <<local, c2s, s2c, c2sEof, s2cEof, cli, sent, printed,
                   visited, snap, prev, session, race>>

\* receive_file writing no more than the declared self.file_size bytes.
SrvReceiveChunkDeclared(k) ==
    /\ srv.pc = "UploadRecv"
    /\ k \in RecvChoices(c2s, c2sEof, BUFFER_SIZE)
    /\ k > 0
    /\ LET w == Min(k, srv.file_size - srv.fpos)
       IN  /\ hosted' = [hosted EXCEPT
                            ![srv.fn] = File(WriteAt(hosted[srv.fn].data, srv.fpos,
                                                     Take(c2s, w)))]
           /\ srv' = [srv EXCEPT !.fpos = srv.fpos + Min(k, srv.file_size - srv.fpos)]
    /\ c2s' = Drop(c2s, k)
    /\ fsops' = Append(fsops, "write")
    /\ UNCHANGED <<local, s2c, c2sEof, s2cEof, cli, sent, printed,
                   visited, snap, prev, session, race>>

\* receive_file lines 269-272: a read that returned data, and its write.
SrvReceiveChunk(k) ==
    /\ srv.pc = "UploadRecv"
    /\ k \in RecvChoices(c2s, c2sEof, BUFFER_SIZE)
    /\ k > 0
    /\ hosted' = [hosted EXCEPT
                     ![srv.fn] = File(WriteAt(hosted[srv.fn].data, srv.fpos, Take(c2s, k)))]
    /\ srv' = [srv EXCEPT !.fpos = srv.fpos + k]
    /\ c2s' = Drop(c2s, k)
    /\ fsops' = Append(fsops, "write")
    /\ UNCHANGED <<local, s2c, c2sEof, s2cEof, cli, sent, printed,
                   visited, snap, prev, session, race>>

\* receive_file lines 270-276 and process_init_cmd line 105: the read
\* returned nothing, the file closes, the flow has succeeded.
SrvReceiveDone ==
    /\ srv.pc = "UploadRecv"
    /\ 0 \in RecvChoices(c2s, c2sEof, BUFFER_SIZE)
    /\ srv' = [srv EXCEPT !.pc = "SendingFinalResponse", !.fh = "none",
                          !.process_status = "True", !.final_resp = FinalDone]
    /\ visited' = Append(visited, "SendingFinalResponse")
    /\ UNCHANGED <<hosted, local, c2s, s2c, c2sEof, s2cEof, cli, sent, printed,
                   fsops, snap, prev, session, race>>

\* The print loop with <= for <: it prints percent_sent itself as well.
RECURSIVE PrintLoopInclusive(_, _, _)
PrintLoopInclusive(out, percent_printed, percent_sent) ==
    IF percent_printed <= percent_sent
    THEN PrintLoopInclusive(Append(out, percent_printed), percent_printed + 10,
                            percent_sent)
    ELSE [out |-> out, percent_printed |-> percent_printed]

\* The print loop of send_file (lines 185-188 and 197-201): what it prints
\* and where it leaves percent_printed.
RECURSIVE PrintLoop(_, _, _)
PrintLoop(out, percent_printed, percent_sent) ==
    IF percent_printed < percent_sent
    THEN PrintLoop(Append(out, percent_printed), percent_printed + 10, percent_sent)
    ELSE [out |-> out, percent_printed |-> percent_printed]

\* percent_sent of lines 180-181: the percentage, down to a multiple of 10.
PercentSent(tot_bytes_sent, file_size) == 10 * ((10 * tot_bytes_sent) \div file_size)

\* send_file without the f.seek(self.start_byte): it reads from offset 0.
SrvSendOpenNoSeek ==
    /\ srv.pc = "DownloadOpen"
    /\ LET n == IF BUFFER_SIZE >= srv.file_size THEN srv.file_size ELSE BUFFER_SIZE
           chunk == FileRead(hosted[srv.fn].data, 0, n)
       IN  srv' = [srv EXCEPT !.pc = "DownloadLoop", !.fh = "rb",
                       !.tot_bytes_sent = 0, !.percent_printed = 0,
                       !.zdiv = IF srv.file_size = 0 THEN 1 ELSE 0,
                       !.bytes_read = chunk,
                       !.fpos = Len(chunk),
                       !.bytes_left = IF BUFFER_SIZE >= srv.file_size THEN 0
                                      ELSE srv.file_size - BUFFER_SIZE]
    /\ fsops' = fsops \o <<"open_rb", "read">>
    /\ UNCHANGED <<hosted, local, c2s, s2c, c2sEof, s2cEof, cli, sent, printed,
                   visited, snap, prev, session, race>>

\* send_file lines 148-171: the counters, the open, the seek, the first read.
SrvSendOpen ==
    /\ srv.pc = "DownloadOpen"
    /\ LET n == IF BUFFER_SIZE >= srv.file_size THEN srv.file_size ELSE BUFFER_SIZE
           chunk == FileRead(hosted[srv.fn].data, srv.start_byte, n)
       IN  srv' = [srv EXCEPT !.pc = "DownloadLoop", !.fh = "rb",
                       !.tot_bytes_sent = 0, !.percent_printed = 0,
                       !.zdiv = IF srv.file_size = 0 THEN 1 ELSE 0,
                       !.bytes_read = chunk,
                       !.fpos = srv.start_byte + Len(chunk),
                       !.bytes_left = IF BUFFER_SIZE >= srv.file_size THEN 0
                                      ELSE srv.file_size - BUFFER_SIZE]
    /\ fsops' = fsops \o <<"open_rb", "read">>
    /\ UNCHANGED <<hosted, local, c2s, s2c, c2sEof, s2cEof, cli, sent, printed,
                   visited, snap, prev, session, race>>

\* The bytes the progress counter adds for one chunk (lines 174-178).
ChunkCredit(file_size) == IF file_size < BUFFER_SIZE THEN file_size ELSE BUFFER_SIZE

\* send_file lines 172-194: one turn of the send loop.
SrvSendChunk ==
    /\ srv.pc = "DownloadLoop"
    /\ srv.bytes_read # <<>>
    /\ LET tot == srv.tot_bytes_sent + ChunkCredit(srv.file_size)
           p == PrintLoop(printed, srv.percent_printed, PercentSent(tot, srv.file_size))
           n == IF srv.bytes_left >= BUFFER_SIZE THEN BUFFER_SIZE ELSE srv.bytes_left
           chunk == FileRead(hosted[srv.fn].data, srv.fpos, n)
       IN  /\ printed' = p.out
           /\ srv' = [srv EXCEPT !.tot_bytes_sent = tot,
                          !.chunks = Append(srv.chunks, Len(srv.bytes_read)),
                          !.percent_printed = p.percent_printed,
                          !.bytes_read = chunk,
                          !.fpos = srv.fpos + Len(chunk),
                          !.bytes_left = IF srv.bytes_left >= BUFFER_SIZE
                                         THEN srv.bytes_left - BUFFER_SIZE ELSE 0]
    /\ s2c' = s2c \o srv.bytes_read
    /\ sent' = sent \o srv.bytes_read
    /\ fsops' = Append(fsops, "read")
    /\ UNCHANGED <<hosted, local, c2s, c2sEof, s2cEof, cli, visited, snap,
                   prev, session, race>>

\* send_file lines 196-207 and process_init_cmd line 133: the loop is
\* over, the file closes, the last progress lines are printed.
SrvSendDone ==
    /\ srv.pc = "DownloadLoop"
    /\ srv.bytes_read = <<>>
    /\ LET p == PrintLoop(printed, srv.percent_printed, 100)
       IN  /\ printed' = Append(p.out, 100)
           /\ srv' = [srv EXCEPT !.pc = "SendingFinalResponse", !.fh = "none",
                          !.percent_printed = p.percent_printed,
                          !.process_status = "True", !.final_resp = FinalDone]
    /\ visited' = Append(visited, "SendingFinalResponse")
    /\ UNCHANGED <<hosted, local, c2s, s2c, c2sEof, s2cEof, cli, sent, fsops,
                   snap, prev, session, race>>

\* handle line 76: the final response.
SrvFinalResponse ==
    /\ srv.pc = "SendingFinalResponse"
    /\ s2c' = Append(s2c, Msg(srv.final_resp))
    /\ sent' = Append(sent, Msg(srv.final_resp))
    /\ srv' = [srv EXCEPT !.pc = "Closing"]
    /\ UNCHANGED <<hosted, local, c2s, c2sEof, s2cEof, cli, printed, visited,
                   fsops, snap, prev, session, race>>

\* handle line 79: the connection closes.
SrvClose ==
    /\ srv.pc = "Closing"
    /\ srv' = [srv EXCEPT !.pc = "Closed"]
    /\ s2cEof' = TRUE
    /\ visited' = Append(visited, "Closed")
    /\ UNCHANGED <<hosted, local, c2s, s2c, c2sEof, cli, sent, printed, fsops,
                   snap, prev, session, race>>

\* ------------------------------------------------------------ invocations
\* What the invocation that just ended was, for the next one to look back on.
Summary ==
    [kind |-> IF cli.raw THEN "raw" ELSE IF cli.write THEN "upload" ELSE "download",
     fn |-> cli.fn,
     data |-> snap.local[cli.fn].data,
     absent |-> ~snap.hosted[cli.fn].exists]

\* The client has exited and the handler, if there was one, has closed: the
\* client is invoked again, on a new connection.
NextInvocation ==
    /\ cli.pc = "exited"
    /\ srv.pc = IF cli.connected THEN "Closed" ELSE "Listening"
    /\ session < MaxSessions
    /\ session' = session + 1
    /\ prev' = Summary
    /\ snap' = [hosted |-> hosted, local |-> local]
    /\ cli' = CliInit
    /\ srv' = SrvInit
    /\ c2s' = <<>> /\ s2c' = <<>>
    /\ c2sEof' = FALSE /\ s2cEof' = FALSE
    /\ sent' = <<>> /\ printed' = <<>> /\ visited' = <<>> /\ fsops' = <<>>
    /\ UNCHANGED <<hosted, local, race>>

\* Everything the two programs do once a request is on its way.
Transfer ==
    \/ \E k \in 0..FIRST_RECV : ClientRecvFirst(k)
    \/ ClientSendOpen
    \/ ClientSendChunk
    \/ ClientSendDone
    \/ ClientRecvOpen
    \/ \E k \in 0..BUFFER_SIZE : ClientRecvFirstChunk(k)
    \/ \E k \in 0..BUFFER_SIZE : ClientRecvChunk(k)
    \/ ClientRecvDone
    \/ SrvAccept
    \/ \E k \in 0..BUFFER_SIZE : SrvGetInitCmd(k)
    \/ SrvProcessInitCmd
    \/ SrvReceiveOpen
    \/ \E k \in 1..BUFFER_SIZE : SrvReceiveChunk(k)
    \/ SrvReceiveDone
    \/ SrvSendOpen
    \/ SrvSendChunk
    \/ SrvSendDone
    \/ SrvFinalResponse
    \/ SrvClose

\* One connection: any invocation of the client, or any other peer.
Next ==
    \/ \E s \in OptInts, e \in OptInts, w \in BOOLEAN, fn \in Names :
           ClientRequest(s, e, w, fn)
    \/ \E m \in RawMessages : RawPeerRequest(m)
    \/ RawPeerGarbage
    \/ RawPeerSilent
    \/ Transfer

Spec == Init /\ [][Next]_vars

\* The round trip: the client uploads a local file under a name the server
\* does not have, and once that connection is over is invoked again to
\* download the name, with neither -s nor -e.
InitRoundTrip ==
    /\ Init
    /\ \A fn \in Names : ~hosted[fn].exists /\ local[fn].exists

RoundTripRequest ==
    \E fn \in Names : ClientRequest(None, None, session = 1, fn)

NextRoundTrip ==
    \/ RoundTripRequest
    \/ Transfer
    \/ NextInvocation

SpecRoundTrip == InitRoundTrip /\ [][NextRoundTrip]_vars

\* ------------------------------------------------- two connections at once
\* ThreadingMixIn gives every connection a handler thread of its own; the
\* threads share ./hosted-files/ and nothing else.  race holds the second
\* connection: its handler h (the attributes the first one has in srv), the
\* bytes on their way to it (in, inEof), what it has sent (out), and the
\* second client (its position ppc, its local file data, its read offset).

\* A second client is invoked with -w on a local file of n bytes: it
\* connects and sends its request (client lines 105-139).
Peer2Request(fn, n) ==
    /\ ~race.on
    /\ race' = [race EXCEPT !.on = TRUE, !.ppc = "recvFirst",
                            !.data = Content(224, n),
                            !.in = <<Msg(construct_client_request(
                                         None, None, TRUE, fn,
                                         [f \in {fn} |-> File(Content(224, n))]))>>]
    /\ UNCHANGED <<hosted, local, c2s, s2c, c2sEof, s2cEof, cli, srv, sent,
                   printed, visited, fsops, snap, prev, session>>

\* The server accepts the second connection (lines 57-60).
Srv2Accept ==
    /\ race.on
    /\ race.h.pc = "Listening"
    /\ race' = [race EXCEPT !.h.pc = "AwaitingInitCommand"]
    /\ UNCHANGED <<hosted, local, c2s, s2c, c2sEof, s2cEof, cli, srv, sent,
                   printed, visited, fsops, snap, prev, session>>

Srv2GetInitCmd(k) ==
    /\ race.h.pc = "AwaitingInitCommand"
    /\ k \in RecvChoices(race.in, race.inEof, BUFFER_SIZE)
    /\ race' = [race EXCEPT !.h = GetInitCmd(race.h, Take(race.in, k)),
                            !.in = Drop(race.in, k)]
    /\ UNCHANGED <<hosted, local, c2s, s2c, c2sEof, s2cEof, cli, srv, sent,
                   printed, visited, fsops, snap, prev, session>>

\* process_init_cmd in the second thread, on the directory as it is now.
Srv2ProcessInitCmd ==
    /\ race.h.pc = "ValidatingCommand"
    /\ LET r == ProcessInitCmd(race.h, hosted)
       IN  race' = [race EXCEPT !.h = r.h, !.out = race.out \o r.out]
    /\ UNCHANGED <<hosted, local, c2s, s2c, c2sEof, s2cEof, cli, srv, sent,
                   printed, visited, fsops, snap, prev, session>>

\* receive_file line 268 in the second thread.
Srv2ReceiveOpen ==
    /\ race.h.pc = "UploadOpen"
    /\ hosted' = [hosted EXCEPT ![race.h.fn] = File(<<>>)]
    /\ race' = [race EXCEPT !.h.pc = "UploadRecv", !.h.fh = "wb", !.h.fpos = 0]
    /\ UNCHANGED <<local, c2s, s2c, c2sEof, s2cEof, cli, srv, sent, printed,
                   visited, fsops, snap, prev, session>>

\* receive_file lines 269-272 in the second thread: its handle has its own
\* offset into the same file.
Srv2ReceiveChunk(k) ==
    /\ race.h.pc = "UploadRecv"
    /\ k \in RecvChoices(race.in, race.inEof, BUFFER_SIZE)
    /\ k > 0
    /\ hosted' = [hosted EXCEPT
                     ![race.h.fn] = File(WriteAt(hosted[race.h.fn].data, race.h.fpos,
                                                 Take(race.in, k)))]
    /\ race' = [race EXCEPT !.h.fpos = race.h.fpos + k, !.in = Drop(race.in, k)]
    /\ UNCHANGED <<local, c2s, s2c, c2sEof, s2cEof, cli, srv, sent, printed,
                   visited, fsops, snap, prev, session>>

Srv2ReceiveDone ==
    /\ race.h.pc = "UploadRecv"
    /\ 0 \in RecvChoices(race.in, race.inEof, BUFFER_SIZE)
    /\ race' = [race EXCEPT !.h.pc = "SendingFinalResponse", !.h.fh = "none",
                            !.h.process_status = "True", !.h.final_resp = FinalDone]
    /\ UNCHANGED <<hosted, local, c2s, s2c, c2sEof, s2cEof, cli, srv, sent,
                   printed, visited, fsops, snap, prev, session>>

Srv2FinalResponse ==
    /\ race.h.pc = "SendingFinalResponse"
    /\ race' = [race EXCEPT !.h.pc = "Closing",
                            !.out = Append(race.out, Msg(race.h.final_resp))]
    /\ UNCHANGED <<hosted, local, c2s, s2c, c2sEof, s2cEof, cli, srv, sent,
                   printed, visited, fsops, snap, prev, session>>

Srv2Close ==
    /\ race.h.pc = "Closing"
    /\ race' = [race EXCEPT !.h.pc = "Closed"]
    /\ UNCHANGED <<hosted, local, c2s, s2c, c2sEof, s2cEof, cli, srv, sent,
                   printed, visited, fsops, snap, prev, session>>

\* The second client's first read (client line 143) and its dispatch: on s
\* it goes on to send its file, on anything else it closes.
Peer2RecvFirst ==
    /\ race.ppc = "recvFirst"
    /\ Len(race.out) >= 1
    /\ IF race.out[1].f[1] = "s"
       THEN race' = [race EXCEPT !.ppc = "sendLoop"]
       ELSE race' = [race EXCEPT !.ppc = "exited", !.inEof = TRUE]
    /\ UNCHANGED <<hosted, local, c2s, s2c, c2sEof, s2cEof, cli, srv, sent,
                   printed, visited, fsops, snap, prev, session>>

\* The second client's upload loop (client lines 148-152): one chunk.
Peer2SendChunk ==
    /\ race.ppc = "sendLoop"
    /\ race.data # <<>>
    /\ race' = [race EXCEPT !.in = race.in \o Take(race.data, BUFFER_SIZE),
                            !.data = Drop(race.data, BUFFER_SIZE)]
    /\ UNCHANGED <<hosted, local, c2s, s2c, c2sEof, s2cEof, cli, srv, sent,
                   printed, visited, fsops, snap, prev, session>>

\* The second client's file is sent; it closes (client lines 153-155).
Peer2SendDone ==
    /\ race.ppc = "sendLoop"
    /\ race.data = <<>>
    /\ race' = [race EXCEPT !.ppc = "exited", !.inEof = TRUE]
    /\ UNCHANGED <<hosted, local, c2s, s2c, c2sEof, s2cEof, cli, srv, sent,
                   printed, visited, fsops, snap, prev, session>>

\* Two clients upload the same name while the server serves both: the
\* first client has the file it uploads.
InitRace ==
    /\ Init
    /\ \A fn \in Names :
           /\ local[fn] \in {File(Content(96, n)) : n \in 0..MaxRaceLen}
           /\ hosted[fn] \in {NoFile, File(Content(64, 1))}

NextRace ==
    \/ \E fn \in Names : ClientRequest(None, None, TRUE, fn)
    \/ \E k \in 0..FIRST_RECV : ClientRecvFirst(k)
    \/ ClientSendOpen
    \/ ClientSendChunk
    \/ ClientSendDone
    \/ SrvAccept
    \/ \E k \in 0..BUFFER_SIZE : SrvGetInitCmd(k)
    \/ SrvProcessInitCmd
    \/ SrvReceiveOpen
    \/ \E k \in 1..BUFFER_SIZE : SrvReceiveChunk(k)
    \/ SrvReceiveDone
    \/ SrvFinalResponse
    \/ SrvClose
    \/ \E fn \in Names, n \in 0..MaxRaceLen : Peer2Request(fn, n)
    \/ Srv2Accept
    \/ \E k \in 0..BUFFER_SIZE : Srv2GetInitCmd(k)
    \/ Srv2ProcessInitCmd
    \/ Srv2ReceiveOpen
    \/ \E k \in 1..BUFFER_SIZE : Srv2ReceiveChunk(k)
    \/ Srv2ReceiveDone
    \/ Srv2FinalResponse
    \/ Srv2Close
    \/ Peer2RecvFirst
    \/ Peer2SendChunk
    \/ Peer2SendDone

SpecRace == InitRace /\ [][NextRace]_vars

\* ------------------------------------------------------------- I/O faults
\* A read or write on the file or the socket fails in the middle of a
\* transfer (OSError, ConnectionResetError, BrokenPipeError).  In the handler
\* the exception leaves the with block of send_file or receive_file, or the
\* sendall of the final response, and then handle().
SrvIOError ==
    /\ srv.pc \in {"UploadRecv", "DownloadLoop", "SendingFinalResponse"}
    /\ srv' = Raise(srv, "OSError")
    /\ s2cEof' = TRUE
    /\ visited' = Append(visited, "Closed")
    /\ UNCHANGED <<hosted, local, c2s, s2c, c2sEof, cli, sent, printed, fsops,
                   snap, prev, session, race>>

\* In the client the exception leaves the with block of the upload (lines
\* 148-154) or of the download (lines 160-177), then the with of the
\* socket, and ends the process.
CliIOError ==
    /\ cli.pc \in {"sendLoop", "recvFirstChunk", "recvLoop"}
    /\ cli' = [cli EXCEPT !.pc = "exited", !.fh = "none", !.err = "OSError"]
    /\ c2sEof' = TRUE
    /\ UNCHANGED <<hosted, local, c2s, s2c, s2cEof, srv, sent, printed, visited,
                   fsops, snap, prev, session, race>>

NextFaults ==
    \/ Next
    \/ SrvIOError
    \/ CliIOError

SpecFaults == Init /\ [][NextFaults]_vars

\* ------------------------------------------------------------- long names
\* A path of FN_LIMIT + 1 characters, each of its components a legal name.
RECURSIVE Repeat(_, _)
Repeat(c, n) ==
    IF n <= 0 THEN ""
    ELSE IF n % 2 = 0 THEN LET h == Repeat(c, n \div 2) IN h \o h
    ELSE c \o Repeat(c, n - 1)
FN_LONG == "d/" \o Repeat("a", FN_LIMIT - 1)

\* The client is invoked with FN_LONG as its file_name.
InitLong ==
    /\ hosted \in [{FN_LONG} -> {NoFile} \cup {File(Content(64, n)) : n \in 0..MaxFileLen}]
    /\ local \in [{FN_LONG} -> {NoFile} \cup {File(Content(96, n)) : n \in 0..MaxFileLen}]
    /\ c2s = <<>> /\ s2c = <<>>
    /\ c2sEof = FALSE /\ s2cEof = FALSE
    /\ cli = CliInit
    /\ srv = SrvInit
    /\ sent = <<>> /\ printed = <<>> /\ visited = <<>> /\ fsops = <<>>
    /\ snap = [hosted |-> hosted, local |-> local]
    /\ prev = PrevInit
    /\ session = 1
    /\ race = RaceInit

NextLong ==
    \/ \E w \in BOOLEAN : ClientRequest(None, None, w, FN_LONG)
    \/ Transfer

SpecLong == InitLong /\ [][NextLong]_vars

\* ---------------------------------------------------------- declared size
\* A peer that declares d bytes in its w request, whatever its file holds,
\* and then goes on as the client does.
DeclaredRequest(d) == RawPeerRequest(<<"w", FN_A, IntToStr(d) \o "\n">>)

InitDeclared ==
    /\ Init
    /\ \A fn \in Names :
           /\ ~hosted[fn].exists
           /\ local[fn] \in {File(Content(96, n)) : n \in 0..MaxFileLen}

NextDeclared ==
    \/ \E d \in 0..(MaxFileLen + 1) : DeclaredRequest(d)
    \/ \E k \in 0..FIRST_RECV : ClientRecvFirst(k)
    \/ ClientSendOpen
    \/ ClientSendChunk
    \/ ClientSendDone
    \/ SrvAccept
    \/ \E k \in 0..BUFFER_SIZE : SrvGetInitCmd(k)
    \/ SrvProcessInitCmd
    \/ SrvReceiveOpen
    \/ \E k \in 1..BUFFER_SIZE : SrvReceiveChunk(k)
    \/ SrvReceiveDone
    \/ SrvFinalResponse
    \/ SrvClose

SpecDeclared == InitDeclared /\ [][NextDeclared]_vars

\* ------------------------------------------------------------- scheduling
\* The client process, once invoked, and the handler thread each keep
\* running while they can: a step that stays possible is taken.  Nothing is
\* assumed about when, or whether, the client is invoked.
ClientStep ==
    \/ \E k \in 0..FIRST_RECV : ClientRecvFirst(k)
    \/ ClientSendOpen
    \/ ClientSendChunk
    \/ ClientSendDone
    \/ ClientRecvOpen
    \/ \E k \in 0..BUFFER_SIZE : ClientRecvFirstChunk(k)
    \/ \E k \in 0..BUFFER_SIZE : ClientRecvChunk(k)
    \/ ClientRecvDone

ServerStep ==
    \/ SrvAccept
    \/ \E k \in 0..BUFFER_SIZE : SrvGetInitCmd(k)
    \/ SrvProcessInitCmd
    \/ SrvReceiveOpen
    \/ \E k \in 1..BUFFER_SIZE : SrvReceiveChunk(k)
    \/ SrvReceiveDone
    \/ SrvSendOpen
    \/ SrvSendChunk
    \/ SrvSendDone
    \/ SrvFinalResponse
    \/ SrvClose

\* The files of the fair runs: absent, empty, or of the greatest length; on
\* the server with bytes that are ASCII or not.
InitLive ==
    /\ Init
    /\ \A fn \in Names :
           /\ hosted[fn] \in {NoFile} \cup {File(Content(b, n)) :
                                               b \in HostedBases, n \in {0, MaxFileLen}}
           /\ local[fn] \in {NoFile} \cup {File(Content(96, n)) : n \in {0, MaxFileLen}}

SpecLive == InitLive /\ [][Next]_vars /\ WF_vars(ClientStep) /\ WF_vars(ServerStep)

\* ================================================================= claims
Last(q) == q[Len(q)]
Tag(it) == IF IsMsg(it) THEN it.f[1] ELSE "payload"
Payload(q) == SelectSeq(q, IsByte)
Tags(q) == [i \in 1..Len(q) |-> Tag(q[i])]

\* The handler has dispatched the first message and replied (or raised).
Processed == srv.pc \notin {"Listening", "AwaitingInitCommand", "ValidatingCommand"}
\* The handler has accepted a download: its first reply is the g handshake.
DownloadAccepted == Len(sent) >= 1 /\ Tag(sent[1]) = "g"
\* The send loop is over.
SendOver == srv.pc \in {"SendingFinalResponse", "Closing", "Closed"}

\* The first message is a download request with all its fields for a file
\* the server hosts.
GetOfHosted ==
    /\ Len(srv.init_cmd) = 4 /\ srv.init_cmd[1] = "g"
    /\ srv.init_cmd[2] \in Names /\ snap.hosted[srv.init_cmd[2]].exists
ReqStartGiven == ParseInt(srv.init_cmd[3]).ok
ReqEndGiven == ParseInt(srv.init_cmd[4]).ok
ReqStart == IF ReqStartGiven THEN ParseInt(srv.init_cmd[3]).val ELSE 0
ReqEnd == ParseInt(srv.init_cmd[4]).val
ReqFileSize == Len(snap.hosted[srv.init_cmd[2]].data)

\* C1 (as claimed): a download with explicit bounds 0 <= start <= end <
\* fileSize is announced with size end - start + 1, and once the handler has
\* closed it has sent that many payload bytes.
C1_InclusiveSize ==
    (/\ Processed /\ GetOfHosted /\ ReqStartGiven /\ ReqEndGiven
     /\ 0 <= ReqStart /\ ReqStart <= ReqEnd /\ ReqEnd < ReqFileSize)
    => /\ Len(sent) >= 1
       /\ sent[1] = Msg(RespReadyToSend(ReqEnd - ReqStart + 1))
       /\ (srv.pc = "Closed" => Len(Payload(sent)) = ReqEnd - ReqStart + 1)

\* C2 (as claimed): a download of a hosted file whose bounds break
\* start <= fileSize, start >= 0 or, with an end on the wire (any negative
\* end included), end <= fileSize or end >= start, is answered with the
\* illogical-bounds error and nothing but e messages.
C2_IllogicalBoundsRejected ==
    (/\ Processed /\ GetOfHosted
     /\ \/ ReqStart > ReqFileSize
        \/ ReqStart < 0
        \/ ReqEndGiven /\ (ReqEnd > ReqFileSize \/ ReqEnd < ReqStart))
    => /\ Len(sent) >= 1
       /\ sent[1] = Msg(RespBounds)
       /\ \A i \in 1..Len(sent) : Tag(sent[i]) = "e"
       /\ (srv.pc = "Closed" => Len(sent) = 2)

\* C3 (as claimed): after an upload under a name the server did not have
\* and then a download of the name without bounds, both over, the client's
\* local file holds the bytes that were uploaded.
C3_RoundTrip ==
    (/\ session >= 2 /\ prev.kind = "upload" /\ prev.absent
     /\ ~cli.write /\ cli.fn = prev.fn
     /\ cli.pc = "exited" /\ srv.pc = "Closed")
    => local[cli.fn] = File(prev.data)

Deciles(from) == [i \in 1..(11 - from \div 10) |-> from + 10 * (i - 1)]

\* C4 (as claimed): a completed download of effective size > 0 has printed
\* exactly 10, 20, ..., 100.
C4_ProgressDeciles ==
    (DownloadAccepted /\ SendOver /\ srv.file_size > 0)
    => printed = Deciles(10)

IsFinal(it) == it \in {Msg(FinalDone), Msg(FinalWrong), Msg(FinalUnknown)}

\* C6 (as claimed): whatever the first message, when the handler has closed
\* the last thing it sent is the one final message, d exactly when the flow
\* succeeded.
C6_OneFinalMessage ==
    srv.pc = "Closed"
    => /\ Len(sent) >= 1
       /\ IsFinal(Last(sent))
       /\ Len(SelectSeq(sent, IsFinal)) = 1
       /\ (Tag(Last(sent)) = "d" <=> srv.process_status = "True")

\* C7 (as claimed): a first message whose first field is neither w nor g
\* gets the Unknown Initial Command reply and nothing else, and the handler
\* makes no filesystem call.
C7_UnknownCommand ==
    (/\ srv.pc = "Closed" /\ cli.raw
     /\ cli.request[1] \notin {"w", "g", "garbage"})
    => /\ sent = <<Msg(FinalUnknown)>>
       /\ fsops = <<>>
       /\ hosted = snap.hosted

\* C8 (as claimed): a w request without a numeric size, or a g request with
\* fewer than four fields, has been sent an e message when the handler has
\* closed.
C8_ErrorBeforeClose ==
    (/\ srv.pc = "Closed"
     /\ Len(srv.init_cmd) >= 1
     /\ \/ srv.init_cmd[1] = "w"
           /\ (Len(srv.init_cmd) < 3 \/ ~ParseInt(srv.init_cmd[3]).ok)
        \/ srv.init_cmd[1] = "g" /\ Len(srv.init_cmd) < 4)
    => \E i \in 1..Len(sent) : Tag(sent[i]) = "e"

\* The first message is an upload request with its fields for a name the
\* server hosts.
PutOfHosted ==
    /\ Len(srv.init_cmd) >= 3 /\ srv.init_cmd[1] = "w"
    /\ ParseInt(srv.init_cmd[3]).ok
    /\ srv.init_cmd[2] \in Names /\ snap.hosted[srv.init_cmd[2]].exists

\* C9: an upload request naming a file the server hosts is answered with
\* the FILE EXISTS error: no s handshake is sent, the file is never opened
\* for writing and keeps its content, and the connection ends with the
\* final e message.
C9_ExistingUploadRefused ==
    (Processed /\ PutOfHosted)
    => /\ Len(sent) >= 1
       /\ sent[1] = Msg(RespFileExists)
       /\ \A i \in 1..Len(sent) : Tag(sent[i]) = "e"
       /\ "open_wb" \notin {fsops[i] : i \in 1..Len(fsops)}
       /\ srv.fh = "none"
       /\ hosted = snap.hosted
       /\ (srv.pc \in {"Closing", "Closed"}
              => sent = <<Msg(RespFileExists), Msg(FinalWrong)>>)

\* C9 witness: such an upload has been refused and the handler has closed.
C9_Witness ==
    /\ PutOfHosted /\ srv.pc = "Closed" /\ ~cli.raw /\ cli.write
    /\ Len(hosted[cli.fn].data) > 0

RECURSIVE ChunkSizes(_)
ChunkSizes(n) ==
    IF n <= 0 THEN <<>>
    ELSE IF n <= BUFFER_SIZE THEN <<n>>
    ELSE <<BUFFER_SIZE>> \o ChunkSizes(n - BUFFER_SIZE)

\* C11: in an accepted download the handler sends the g handshake with the
\* effective size, then only file bytes, which are those of the hosted file
\* from offset start on, then, as the last item, the final d message; once
\* the loop is over the payload is exactly effective-size bytes, sent in
\* chunks of BUFFER_SIZE with the remainder last; bytes_left is never
\* negative and is 0 when the loop is over.
C11_DownloadStream ==
    DownloadAccepted
    => /\ sent[1] = Msg(RespReadyToSend(srv.file_size))
       /\ Payload(sent)
            = SubSeq(snap.hosted[srv.fn].data, srv.start_byte + 1,
                     srv.start_byte + Len(Payload(sent)))
       /\ \A i \in 2..Len(sent) :
            IsMsg(sent[i]) => i = Len(sent) /\ sent[i] = Msg(FinalDone)
       /\ srv.bytes_left >= 0
       /\ Len(Payload(sent)) <= srv.file_size
       /\ \A i \in 1..Len(srv.chunks) :
            srv.chunks[i] = ChunkSizes(srv.file_size)[i]
       /\ (SendOver => /\ Len(Payload(sent)) = srv.file_size
                       /\ srv.chunks = ChunkSizes(srv.file_size)
                       /\ srv.bytes_left = 0)
       /\ (srv.pc \in {"Closing", "Closed"} => Last(sent) = Msg(FinalDone))

\* C11 witness: a download from an offset above 0 went out in several chunks,
\* the last one short, and the handler has closed.
C11_Witness ==
    /\ DownloadAccepted /\ srv.pc = "Closed" /\ srv.start_byte > 0
    /\ Len(srv.chunks) >= 2
    /\ Last(srv.chunks) < BUFFER_SIZE

\* C12: a download request without an end bound and with a start s,
\* 0 <= s <= fileSize (0 when no start is given), is accepted with the
\* effective size fileSize - s.
C12_OpenEnded ==
    (/\ Processed /\ GetOfHosted /\ ~ReqEndGiven
     /\ 0 <= ReqStart /\ ReqStart <= ReqFileSize)
    => /\ DownloadAccepted
       /\ sent[1] = Msg(RespReadyToSend(ReqFileSize - ReqStart))
       /\ srv.file_size = ReqFileSize - ReqStart

\* C12 witness: such a request with a start inside a non-empty file, and one
\* with neither bound, have been accepted.
C12_Witness ==
    /\ Processed /\ GetOfHosted /\ ~ReqEndGiven /\ ReqStartGiven
    /\ 0 < ReqStart /\ ReqStart < ReqFileSize /\ srv.pc = "Closed"

\* The first message of handler h is an upload request with its size.
IsPut(h) ==
    /\ Len(h.init_cmd) >= 3 /\ h.init_cmd[1] = "w" /\ ParseInt(h.init_cmd[3]).ok

\* C13: two uploads of one absent name can both pass the existence check,
\* both be answered with s and both hold the file open for writing; and a
\* handler that makes its check while the file exists always rejects: it
\* replies FILE EXISTS, marks the flow failed and leaves the file alone.
C13_CheckThenWrite ==
    [][/\ (srv.pc = "ValidatingCommand" /\ srv'.pc # "ValidatingCommand"
           /\ IsPut(srv) /\ file_exists(srv.init_cmd[2], hosted))
          => /\ srv'.pc = "SendingFinalResponse"
             /\ srv'.process_status = "False"
             /\ sent' = Append(sent, Msg(RespFileExists))
             /\ hosted' = hosted
       /\ (race.h.pc = "ValidatingCommand" /\ race'.h.pc # "ValidatingCommand"
           /\ IsPut(race.h) /\ file_exists(race.h.init_cmd[2], hosted))
          => /\ race'.h.pc = "SendingFinalResponse"
             /\ race'.h.process_status = "False"
             /\ race'.out = Append(race.out, Msg(RespFileExists))
             /\ hosted' = hosted]_vars

\* C13 witness: the race itself: the file was absent, both handlers have
\* answered s for the same name, and both hold it open for writing.
C13_Witness ==
    /\ srv.fh = "wb" /\ race.h.fh = "wb" /\ srv.fn = race.h.fn
    /\ ~snap.hosted[srv.fn].exists
    /\ Len(sent) = 1 /\ Tag(sent[1]) = "s"
    /\ Len(race.out) = 1 /\ Tag(race.out[1]) = "s"

\* C13, the rejecting half seen: a handler has rejected an upload of a name
\* the other handler created in the meantime.
C13_LateCheckRejected ==
    /\ ~snap.hosted[FN_A].exists
    /\ srv.fh = "wb"
    /\ race.out = <<Msg(RespFileExists)>>

\* C14: once the client has been invoked with -w on a name that is no
\* regular file in its directory, it has exited, without a connection and
\* without a byte sent: the handler is still listening and has seen nothing.
C14_MissingUploadSource ==
    (cli.pc # "idle" /\ ~cli.raw /\ cli.write /\ ~snap.local[cli.fn].exists)
    => /\ cli.pc = "exited"
       /\ ~cli.connected
       /\ cli.request = <<>>
       /\ c2s = <<>> /\ ~c2sEof
       /\ srv.pc = "Listening" /\ sent = <<>>
       /\ hosted = snap.hosted /\ local = snap.local

\* C14 witness: the client was invoked with -w on a missing file and is over.
C14_Witness ==
    /\ cli.pc = "exited" /\ ~cli.raw /\ cli.write
    /\ ~snap.local[cli.fn].exists

\* C17: once the byte-bound check has accepted a download, the effective
\* size is between 0 and the file size and start + size is within the file;
\* the send loop never has a negative count left and its read offset never
\* passes the end of the file.
C17_EffectiveSizeInFile ==
    (DownloadAccepted /\ GetOfHosted)
    => /\ 0 <= srv.file_size
       /\ srv.file_size <= ReqFileSize
       /\ srv.start_byte >= 0
       /\ srv.start_byte + srv.file_size <= ReqFileSize
       /\ srv.bytes_left >= 0
       /\ srv.bytes_left <= srv.file_size
       /\ srv.fpos <= ReqFileSize
       /\ (srv.fh = "rb" => srv.fpos >= srv.start_byte)

\* C17 witness: an accepted download from a start inside the file to an
\* end inside the file, sent to the end.
C17_Witness ==
    /\ DownloadAccepted /\ GetOfHosted /\ srv.pc = "Closed"
    /\ ReqStartGiven /\ ReqEndGiven
    /\ 0 < srv.start_byte /\ srv.start_byte < srv.end_byte
    /\ srv.end_byte < ReqFileSize

\* C18 (as claimed): a file is opened for writing by a receive step, on the
\* server for an upload and on the client for a download, only if it did
\* not exist before the transfer.
C18_ReceiveTargetAbsent ==
    /\ (srv.fh = "wb" => ~snap.hosted[srv.fn].exists)
    /\ (cli.fh = "wb" => ~snap.local[cli.fn].exists)

\* The first message is a download request with all its fields for a name
\* the server does not host.
GetOfAbsent ==
    /\ Len(srv.init_cmd) = 4 /\ srv.init_cmd[1] = "g"
    /\ srv.init_cmd[2] \in DOMAIN snap.hosted => ~snap.hosted[srv.init_cmd[2]].exists

\* C20: a download request for a name that is no regular file on the server
\* is answered with the file-not-found e message; the handler makes the
\* is_file() call and nothing else on the filesystem (no stat, so no
\* byte-bound check, no open), sends no g and no payload byte, and ends
\* with the final e message.
C20_DownloadOfAbsent ==
    (Processed /\ GetOfAbsent)
    => /\ Len(sent) >= 1
       /\ sent[1] = Msg(RespNotFound(srv.init_cmd[2]))
       /\ \A i \in 1..Len(sent) : Tag(sent[i]) = "e"
       /\ fsops = <<"is_file">>
       /\ srv.process_status = "False"
       /\ srv.fh = "none"
       /\ hosted = snap.hosted
       /\ (srv.pc \in {"Closing", "Closed"}
              => sent = <<Msg(RespNotFound(srv.init_cmd[2])), Msg(FinalWrong)>>)

\* C20 witness: such a request, with byte bounds that would be illogical
\* for any file, has been answered and the connection is over.
C20_Witness ==
    /\ Processed /\ GetOfAbsent /\ srv.pc = "Closed"
    /\ ReqStartGiven /\ ReqStart < 0

\* C15: a handler that has finished (it is about to send its final
\* response, is closing or has closed, after an exception as well) holds no
\* open file, and neither does a client that has exited; a file is open
\* only inside the transfer loops.
C15_NoOpenFileAfterFinish ==
    /\ (srv.pc \in {"SendingFinalResponse", "Closing", "Closed"} => srv.fh = "none")
    /\ (cli.pc = "exited" => cli.fh = "none")
    /\ (srv.fh # "none" => srv.pc \in {"UploadRecv", "DownloadLoop"})
    /\ (cli.fh # "none" => cli.pc \in {"sendLoop", "recvFirstChunk", "recvLoop"})

\* C15 witness: a download has failed in the middle, on both sides: the
\* handler raised out of its send loop after some payload, the client out
\* of its receive loop.
C15_Witness ==
    /\ srv.pc = "Closed" /\ srv.err = "OSError"
    /\ DownloadAccepted /\ Len(Payload(sent)) > 0
    /\ Len(Payload(sent)) < srv.file_size
    /\ cli.pc = "exited" /\ cli.err = "OSError"

\* C16 (as claimed): the file name of a request the client has sent, and of
\* a handler's transfer, has at most FN_LIMIT characters.
C16_FilenameLimit ==
    /\ (cli.request # <<>> => Len(cli.request[2]) <= FN_LIMIT)
    /\ Len(srv.fn) <= FN_LIMIT

\* The bytes of its file the uploading peer has put on the connection.
CliSent ==
    LET d == snap.local[cli.fn].data IN
    IF cli.pc = "sendLoop" THEN Take(d, cli.fpos - Len(cli.bytes_read))
    ELSE IF cli.pc = "exited" /\ cli.err = "none" THEN d
    ELSE <<>>

\* The handler has accepted an upload and opened the file.
UploadReceiving ==
    /\ Len(sent) >= 1 /\ Tag(sent[1]) = "s"
    /\ srv.pc \in {"UploadRecv", "SendingFinalResponse", "Closing", "Closed"}

\* C19: in an accepted upload the file holds, in order, the bytes the
\* handler has read so far: with the bytes still on their way it is what the
\* peer has sent; once the handler has read the end of the stream the file
\* is everything the peer sent and the flow has succeeded with the final d,
\* whatever size the request declared.
C19_StoresWhatArrives ==
    UploadReceiving
    => /\ hosted[srv.fn].exists
       /\ hosted[srv.fn].data \o c2s = CliSent
       /\ srv.fpos = Len(hosted[srv.fn].data)
       /\ srv.file_size = ParseInt(srv.init_cmd[3]).val
       /\ (srv.pc # "UploadRecv"
              => /\ c2sEof /\ c2s = <<>>
                 /\ hosted[srv.fn].data = CliSent
                 /\ srv.process_status = "True"
                 /\ srv.final_resp = FinalDone)
       /\ (srv.pc \in {"Closing", "Closed"} => Last(sent) = Msg(FinalDone))

\* C19 witness: a peer declared fewer bytes than it then sent; the upload is
\* over and all of them are stored.
C19_Witness ==
    /\ UploadReceiving /\ srv.pc = "Closed"
    /\ Len(hosted[srv.fn].data) > srv.file_size
    /\ hosted[srv.fn].data = snap.local[cli.fn].data

\* C19, the other side: a peer declared more bytes than it sent.
C19_FewerThanDeclared ==
    /\ UploadReceiving /\ srv.pc = "Closed"
    /\ Len(hosted[srv.fn].data) < srv.file_size
    /\ srv.process_status = "True"

\* The client blocks in a recv: it is at a read and nothing can be returned.
ClientWaits ==
    \/ cli.pc = "recvFirst" /\ RecvChoices(s2c, s2cEof, FIRST_RECV) = {}
    \/ cli.pc = "recvFirstChunk"
       /\ RecvChoices(s2c, s2cEof, Min(BUFFER_SIZE, cli.file_size)) = {}
    \/ cli.pc = "recvLoop" /\ cli.bytes_read # <<>>
       /\ RecvChoices(s2c, s2cEof, Min(BUFFER_SIZE, cli.bytes_left)) = {}
\* The handler blocks in a recv.
ServerWaits ==
    /\ srv.pc \in {"AwaitingInitCommand", "UploadRecv"}
    /\ RecvChoices(c2s, c2sEof, BUFFER_SIZE) = {}
\* The invocation is over: the client has exited and its connection, if it
\* opened one, has been closed by the handler.
InvocationOver ==
    /\ cli.pc = "exited"
    /\ cli.connected => srv.pc = "Closed"

\* C21: the two peers never both wait on a read from each other, and once
\* the client is invoked the invocation ends, for good: the client exits and
\* the handler of its connection reaches Closed, whatever the request and
\* the reply.
C21_Terminates ==
    /\ [](~(ClientWaits /\ ServerWaits))
    /\ (cli.pc # "idle") ~> [](InvocationOver)

\* C21 witness: a connection that went through a payload of several reads
\* is over on both sides.
C21_Witness ==
    /\ InvocationOver /\ cli.connected
    /\ Len(Payload(sent)) > BUFFER_SIZE

\* The client has read a g handshake with a size it could parse.
ClientDownloading ==
    /\ Len(cli.received) >= 1 /\ cli.received[1] = "g"
    /\ cli.err = "none"

\* C22: in a download the counts the client has passed to recv add up to no
\* more than the size of the g handshake, and what it has written and what
\* it holds from its last read are no more than it asked for, however many
\* bytes each read returned.
C22_AsksNoMoreThanAnnounced ==
    ClientDownloading
    => /\ cli.file_size >= 0
       /\ cli.bytes_left >= 0
       /\ cli.asked + cli.bytes_left <= cli.file_size
       /\ (cli.pc # "recvOpen"
              => Len(local[cli.fn].data) + Len(cli.bytes_read) <= cli.asked)
       /\ (cli.pc = "exited" => Len(local[cli.fn].data) <= cli.file_size)

\* C22 witness: a download of several reads is over, the client asked for
\* the announced size in all, and reads that returned less left the file
\* shorter than that.
C22_Witness ==
    /\ ClientDownloading /\ cli.pc = "exited"
    /\ cli.file_size > BUFFER_SIZE
    /\ cli.asked = cli.file_size
    /\ Len(local[cli.fn].data) < cli.file_size

\* The first reply the client read has a tag that is neither s nor g: e, d,
\* or anything else, the empty reply of a connection closed unanswered
\* included.
ReplyEndsInvocation ==
    /\ Len(cli.received) >= 1
    /\ cli.received[1] \notin {"s", "g"}

\* C23: after such a reply the client has exited with its socket closed; it
\* has opened no file, read nothing from one and sent nothing after its
\* first message, and both directories are as they were at invocation.
C23_ReplyWithoutTransfer ==
    ReplyEndsInvocation
    => /\ cli.pc = "exited" /\ c2sEof
       /\ cli.fh = "none" /\ cli.fpos = 0 /\ cli.bytes_read = <<>>
       /\ cli.asked = 0
       /\ Len(c2s) <= 1
       /\ local = snap.local
       /\ hosted = snap.hosted
       /\ srv.fh = "none" /\ "open_wb" \notin {fsops[i] : i \in 1..Len(fsops)}

\* C23 witness: a download was answered with e while the client's directory
\* had a file of that name with content; the client is over.
C23_Witness ==
    /\ ReplyEndsInvocation /\ cli.received[1] = "e"
    /\ ~cli.raw /\ ~cli.write
    /\ snap.local[cli.fn].exists /\ Len(snap.local[cli.fn].data) > 0
    /\ cli.pc = "exited" /\ srv.pc = "Closed"

\* C23, the other tags: the reply was empty, the handler having closed the
\* connection without an answer.
C23_UnknownTag ==
    /\ ReplyEndsInvocation /\ cli.received = <<"">>
    /\ snap.local[cli.fn].exists
====
